---- MODULE Spec2Model ----
(***************************************************************************)
(* CTImagesMaskedBatch (preprocessing/ct_masked_batch.py): a batch of      *)
(* CT scans stacked along axis 0 ("skyscraper"), its mask, per-scan        *)
(* origin/spacing and the table of nodules, with the operations load,      *)
(* fetch_nodules_info, create_mask, create_mask_parallel, resize and       *)
(* sample_nodules.                                                         *)
(*                                                                         *)
(* Conventions.  Python None is the empty tuple, a present value v is      *)
(* <<v>>.  An ndarray of length n is a function on 0..n-1.  A float is an  *)
(* exact fraction <<numerator, denominator>>.  A voxel array is its shape  *)
(* and, for data, one tag per z-slice saying where the slice came from;    *)
(* for a mask, the set of voxels equal to 1.                               *)
(***************************************************************************)
EXTENDS Integers, Sequences, FiniteSets, TLC

\* ------------------------------------------------------------ bounds
\* largest batch_size passed to sample_nodules
MaxBatchSize == 2
\* number of resize calls in one behaviour
MaxResizes == 1

\* ------------------------------------------------------------ Python values
None == <<>>
Some(v) == <<v>>
Val(o) == o[1]

Abs(a) == IF a < 0 THEN -a ELSE a
Min(a, b) == IF a < b THEN a ELSE b
Max(a, b) == IF a < b THEN b ELSE a

RECURSIVE GCD(_, _)
GCD(a, b) == IF b = 0 THEN a ELSE GCD(b, a % b)

\* the fraction n/d (d > 0) in lowest terms
Rat(n, d) == LET g == GCD(Abs(n), d) IN IF g = 0 THEN <<0, 1>> ELSE <<n \div g, d \div g>>

\* np.rint of n/d, d > 0: to the nearest integer, a tie to the even one
rint(n, d) ==
    LET q == n \div d
        r == n % d
    IN  IF 2 * r < d THEN q
        ELSE IF 2 * r > d THEN q + 1
        ELSE IF q % 2 = 0 THEN q ELSE q + 1

\* int(x) and ndarray.astype(int) of n/d, d > 0: towards zero
int(n, d) == IF n >= 0 THEN n \div d ELSE -((-n) \div d)

Axes == 1..3

\* the arrays of Python index 0..n-1
Range(n) == 0..(n - 1)

RECURSIVE SumTo(_, _)
\* f[0] + ... + f[n-1]
SumTo(f, n) == IF n = 0 THEN 0 ELSE SumTo(f, n - 1) + f[n - 1]

\* ------------------------------------------------------------ the index and the volume source
\* self.indices: the scan identifiers of the batch, in position order
indices == <<"id0", "id1">>
NScans == Len(indices)
Positions == Range(NScans)

\* self.index.get_pos(patient_id)
get_pos(patient_id) == CHOOSE p \in Positions : indices[p + 1] = patient_id

\* what sitk.ReadImage gives for the scan at position p: shape (z, y, x),
\* origin and spacing already reversed to z, y, x
RawShape == <<<<2, 3, 2>>, <<3, 3, 2>>>>
RawOrigin == <<<<0, 0, 0>>, <<1, 0, 0>>>>
RawSpacing == <<<<<<1, 1>>, <<1, 1>>, <<1, 1>>>>, <<<<2, 1>>, <<1, 1>>, <<1, 1>>>>>>

\* a z-slice of voxel data: where it came from
Slice(src, pos, z, gen) == [src |-> src, pos |-> pos, z |-> z, gen |-> gen]

\* np.zeros((len(self.index), 3))
Zeros3 == [p \in Positions |-> <<0, 0, 0>>]
ZerosRat3 == [p \in Positions |-> <<<<0, 1>>, <<0, 1>>, <<0, 1>>>>]

\* ------------------------------------------------------------ state
VARIABLES
    data,             \* self._data: None or [shape, slices]
    bounds,           \* self._bounds: None or the array of scan boundaries
    mask,             \* self.mask: None or [shape, ones]
    origin,           \* self.origin: None or (N, 3) array
    spacing,          \* self.spacing: None or (N, 3) array of fractions
    nodules,          \* self.nodules: None or the rec.array, one record per nodule
    nodules_pat_pos,  \* self.nodules_pat_pos: None or the owning position of each nodule
    rbatch,           \* the batch resize(new_batch=True) just returned, or None
    sampled,         \* the call of sample_nodules that just returned, or None
    dumped,          \* the call of dump that just returned, or None: what it wrote
    started,          \* the tasks of _load_raw that have written their origin row and
                      \* not yet their spacing row
    mask_view,        \* the call of get_mask that just returned, or None: what it gave
    pc,               \* "idle", or the parallel method whose tasks are running
    todo,             \* the positions whose task has not finished
    all_results,      \* per position: None, or the finished task's result
    kwargs,           \* the arguments of the running parallel method
    ret,              \* None, or the call that just returned and how it ended
    entry,            \* None, or the batch as it was when the current call started
    nresize           \* resize calls so far

batch == <<data, bounds, mask, origin, spacing, nodules, nodules_pat_pos>>
vars == <<data, bounds, mask, origin, spacing, nodules, nodules_pat_pos,
          rbatch, sampled, dumped, mask_view, pc, todo, all_results, kwargs, ret, entry, nresize,
          started>>

\* the attributes of self, as a record
Snapshot ==
    [data |-> data, bounds |-> bounds, mask |-> mask, origin |-> origin,
     spacing |-> spacing, nodules |-> nodules, nodules_pat_pos |-> nodules_pat_pos]

Returned(op, err) == Some([op |-> op, err |-> err])

\* a task's entry in the list the post function gets
Done(value) == [exc |-> "", value |-> value]
Raised(exc) == [exc |-> exc, value |-> None]
NoResults == [p \in Positions |-> None]

\* any_action_failed(list_of_res): some task ended with an exception
any_action_failed(results) ==
    \E p \in Positions : results[p] # None /\ Val(results[p]).exc # ""

\* CTImagesMaskedBatch.__init__
Init ==
    /\ data = None
    /\ bounds = None
    /\ mask = None
    /\ nodules = None
    /\ nodules_pat_pos = None
    /\ spacing = Some(ZerosRat3)
    /\ origin = Some(Zeros3)
    /\ rbatch = None
    /\ sampled = None
    /\ dumped = None
    /\ mask_view = None
    /\ pc = "idle"
    /\ todo = {}
    /\ all_results = NoResults
    /\ kwargs = None
    /\ ret = None
    /\ entry = None
    /\ nresize = 0
    /\ started = {}

\* a call starts when no other call runs and the caller has taken what the
\* previous call returned or raised
Idle == pc = "idle" /\ ret = None

\* ------------------------------------------------------------ skyscraper arrays
\* np.cumsum of the depths, with a leading 0
CumBounds(arrs) ==
    [i \in 0..NScans |-> SumTo([p \in Positions |-> arrs[p].shape[1]], i)]

\* np.concatenate(arrs, axis=0) of one array per position, in position order
Concatenate(arrs) ==
    LET b == CumBounds(arrs)
        posOf(z) == CHOOSE p \in Positions : b[p] <= z /\ z < b[p + 1]
    IN  [shape |-> <<b[NScans], arrs[0].shape[2], arrs[0].shape[3]>>,
         slices |-> [z \in Range(b[NScans]) |->
                        arrs[posOf(z)].slices[z - b[posOf(z)]]]]

\* np.zeros_like(d)
zeros_like(d) == [shape |-> d.shape, ones |-> {}]

\* self[patient].shape, self.get_image(patient).shape
scan_shape(d, b, p) == <<b[p + 1] - b[p], d.shape[2], d.shape[3]>>

\* ------------------------------------------------------------ load
\* sitk.GetArrayFromImage(raw_data) for the scan at position p
RawArray(p) ==
    [shape |-> RawShape[p + 1],
     slices |-> [z \in Range(RawShape[p + 1][1]) |-> Slice("raw", p, z, 0)]]

\* load(fmt='raw'): _load_raw dispatches one task per identifier
load_raw ==
    /\ Idle
    /\ entry' = Some(Snapshot)
    /\ pc' = "_load_raw"
    /\ todo' = Positions
    /\ all_results' = NoResults
    /\ kwargs' = None
    /\ UNCHANGED <<batch, rbatch, sampled, dumped, mask_view, ret, nresize, started>>

\* _load_raw(patient_id), line 181: the task writes the origin row of its scan;
\* the item assignment raises TypeError when self.origin is None
_load_raw_origin(p) ==
    /\ pc = "_load_raw"
    /\ p \in todo \ started
    /\ IF origin = None
       THEN /\ all_results' = [all_results EXCEPT ![p] = Some(Raised("TypeError"))]
            /\ todo' = todo \ {p}
            /\ UNCHANGED <<origin, started>>
       ELSE /\ origin' = Some([Val(origin) EXCEPT ![p] = RawOrigin[p + 1]])
            /\ started' = started \cup {p}
            /\ UNCHANGED <<todo, all_results>>
    /\ UNCHANGED <<data, bounds, mask, spacing, nodules, nodules_pat_pos,
                   rbatch, sampled, dumped, mask_view, pc, kwargs, ret, entry, nresize>>

\* a _load_raw that writes the spacing of its scan into the first row
_load_raw_spacing_first(p) ==
    /\ pc = "_load_raw"
    /\ p \in started
    /\ IF spacing = None
       THEN /\ all_results' = [all_results EXCEPT ![p] = Some(Raised("TypeError"))]
            /\ UNCHANGED spacing
       ELSE /\ spacing' = Some([Val(spacing) EXCEPT ![0] = RawSpacing[p + 1]])
            /\ all_results' = [all_results EXCEPT ![p] = Some(Done(RawArray(p)))]
    /\ todo' = todo \ {p}
    /\ started' = started \ {p}
    /\ UNCHANGED <<data, bounds, mask, origin, nodules, nodules_pat_pos,
                   rbatch, sampled, dumped, mask_view, pc, kwargs, ret, entry, nresize>>

\* _load_raw(patient_id), lines 182-183: the task writes the spacing row of its
\* scan and returns the scan's array; the item assignment raises TypeError when
\* self.spacing is None
_load_raw_spacing(p) ==
    /\ pc = "_load_raw"
    /\ p \in started
    /\ IF spacing = None
       THEN /\ all_results' = [all_results EXCEPT ![p] = Some(Raised("TypeError"))]
            /\ UNCHANGED spacing
       ELSE /\ spacing' = Some([Val(spacing) EXCEPT ![p] = RawSpacing[p + 1]])
            /\ all_results' = [all_results EXCEPT ![p] = Some(Done(RawArray(p)))]
    /\ todo' = todo \ {p}
    /\ started' = started \ {p}
    /\ UNCHANGED <<data, bounds, mask, origin, nodules, nodules_pat_pos,
                   rbatch, sampled, dumped, mask_view, pc, kwargs, ret, entry, nresize>>

\* one step of the task _load_raw(patient_id) of the scan at position p; the
\* tasks run in threads, so the steps of different tasks interleave
_load_raw(p) ==
    \/ _load_raw_origin(p)
    \/ _load_raw_spacing(p)

\* _post_default of CTImagesBatch: how the call ends
_post_default(list_of_res) ==
    IF any_action_failed(list_of_res) THEN "PartialFailure" ELSE "ok"

\* all tasks of _load_raw have finished: _post_default puts the arrays into
\* self, then the rest of load(fmt='raw'): self.mask = np.zeros_like(self.data)
load_raw_post ==
    /\ pc = "_load_raw"
    /\ todo = {}
    /\ IF _post_default(all_results) # "ok"
       THEN /\ ret' = Returned("load", _post_default(all_results))
            /\ UNCHANGED <<data, bounds, mask>>
       ELSE LET arrs == [p \in Positions |-> Val(all_results[p]).value]
            IN  /\ data' = Some(Concatenate(arrs))
                /\ bounds' = Some(CumBounds(arrs))
                /\ mask' = Some(zeros_like(Concatenate(arrs)))
                /\ ret' = Returned("load", "ok")
    /\ pc' = "idle"
    /\ UNCHANGED <<origin, spacing, nodules, nodules_pat_pos,
                   rbatch, sampled, dumped, mask_view, todo, all_results, kwargs, entry, nresize,
                   started>>

\* the arrays load(fmt='ndarray') is given: a skyscraper of two scans of depth 2
ArraySrc ==
    [shape |-> <<4, 3, 2>>,
     slices |-> [z \in Range(4) |-> Slice("ndarray", z \div 2, z % 2, 0)]]
ArrayBounds == [i \in 0..NScans |-> 2 * i]
ArrayOrigin == [p \in Positions |-> <<0, 0, 0>>]
ArraySpacing == [p \in Positions |-> <<<<1, 1>>, <<1, 2>>, <<1, 1>>>>]
\* origin and spacing are given together or left at their default None
ArrayGeometry == {<<None, None>>, <<Some(ArrayOrigin), Some(ArraySpacing)>>}
\* a nodules argument other than the default None: the rec.array of a batch of
\* this geometry, one nodule in the second scan
ArrayNodules ==
    <<[bias |-> <<2, 0, 0>>,
       origin |-> <<0, 0, 0>>,
       spacing |-> <<<<1, 1>>, <<1, 2>>, <<1, 1>>>>,
       center |-> <<1, 1, 1>>,
       size |-> <<2, 2, 2>>,
       img_size |-> <<2, 3, 2>>]>>

\* load(src, fmt='ndarray', bounds, origin, spacing, nodules)
load_ndarray(src, bnds, org, spc, nods) ==
    /\ Idle
    /\ entry' = Some(Snapshot)
    /\ data' = Some(src)
    /\ bounds' = Some(bnds)
    /\ origin' = org
    /\ spacing' = spc
    /\ nodules' = nods
    /\ ret' = Returned("load", "ok")
    /\ UNCHANGED <<mask, nodules_pat_pos, rbatch, sampled, dumped, mask_view, pc, todo,
                   all_results, kwargs, nresize, started>>

\* the other values of fmt load is called with; 'dicom' is the default
OtherFmts == {"dicom", "hdf5"}

\* load with another fmt, the 'ndarray' assignments made before fmt is examined
load_other_assigns(fmt) ==
    /\ Idle
    /\ entry' = Some(Snapshot)
    /\ data' = None
    /\ bounds' = None
    /\ ret' = Returned("load", IF fmt \in {"dicom", "blosc"}
                               THEN "NotImplementedError" ELSE "TypeError")
    /\ UNCHANGED <<mask, origin, spacing, nodules, nodules_pat_pos, rbatch, sampled,
                   dumped, mask_view, pc, todo, all_results, kwargs, nresize, started>>

\* load with any other fmt: 'dicom' (the default) and 'blosc' raise
\* NotImplementedError, everything else TypeError
load_other(fmt) ==
    /\ Idle
    /\ entry' = Some(Snapshot)
    /\ ret' = Returned("load", IF fmt \in {"dicom", "blosc"}
                               THEN "NotImplementedError" ELSE "TypeError")
    /\ UNCHANGED <<batch, rbatch, sampled, dumped, mask_view, pc, todo, all_results,
                   kwargs, nresize, started>>

\* load(src, fmt='ndarray', bounds, origin, spacing, nodules=table)
load_nodules ==
    \E g \in ArrayGeometry :
        load_ndarray(ArraySrc, ArrayBounds, g[1], g[2], Some(ArrayNodules))

load ==
    \/ load_raw
    \/ \E p \in Positions : _load_raw(p)
    \/ load_raw_post
    \/ \E g \in ArrayGeometry : load_ndarray(ArraySrc, ArrayBounds, g[1], g[2], None)
    \/ \E fmt \in OtherFmts : load_other(fmt)

\* ------------------------------------------------------------ the nodule table
\* one row of the annotation dataframe nodules_df
Row(id, z, y, x, diam) ==
    [seriesuid |-> id, coordZ |-> z, coordY |-> y, coordX |-> x, diameter_mm |-> diam]

\* the dataframes fetch_nodules_info is called with: none of the batch's scans
\* annotated, one nodule of the scan "id1" only, or three nodules of the scans.
\* "idX" is a scan the batch does not hold; the nodule at (0, 0, 0) lies on the
\* corner of its scan, the one at (9, 1, 1) outside its scan
NodulesDf ==
    { <<>>,
      <<Row("id1", 5, 2, 1, 2)>>,
      <<Row("id1", 5, 2, 1, 2), Row("id0", 0, 0, 0, 1), Row("idX", 1, 1, 1, 1),
        Row("id0", 9, 1, 1, 4)>> }

RECURSIVE RowsUpTo(_, _)
\* nodules_df.loc[inter_index]: the rows of the batch's scans, grouped by
\* identifier in the sorted order of np.intersect1d, the first n identifiers
RowsUpTo(df, n) ==
    IF n = 0 THEN <<>>
    ELSE RowsUpTo(df, n - 1) \o SelectSeq(df, LAMBDA r : r.seriesuid = indices[n])

\* nod_pat_pos of fetch_nodules_info
NodPatPos(df) ==
    LET rows == RowsUpTo(df, NScans)
    IN  [i \in 1..Len(rows) |-> get_pos(rows[i].seriesuid)]

\* the rec.array fetch_nodules_info builds from data d, bounds b, origin org, spacing spc
NodulesTable(df, d, b, org, spc) ==
    LET rows == RowsUpTo(df, NScans)
        pos == NodPatPos(df)
    IN  [i \in 1..Len(rows) |->
            [bias |-> <<b[pos[i]], 0, 0>>,
             origin |-> org[pos[i]],
             spacing |-> spc[pos[i]],
             center |-> <<rows[i].coordZ, rows[i].coordY, rows[i].coordX>>,
             size |-> <<rows[i].diameter_mm, rows[i].diameter_mm, rows[i].diameter_mm>>,
             img_size |-> scan_shape(d, b, pos[i])]]

\* fetch_nodules_info(nodules_df, update)
fetch_nodules_info(nodules_df, update) ==
    /\ Idle
    /\ entry' = Some(Snapshot)
    /\ IF nodules # None /\ ~update
       THEN /\ ret' = Returned("fetch_nodules_info", "ok")
            /\ UNCHANGED <<nodules, nodules_pat_pos>>
       ELSE IF data = None \/ bounds = None \/ spacing = None \/ origin = None
       THEN \* self[pat_id], self._bounds[...], self.spacing[...] of None
            /\ ret' = Returned("fetch_nodules_info", "TypeError")
            /\ UNCHANGED <<nodules, nodules_pat_pos>>
       ELSE /\ nodules' = Some(NodulesTable(nodules_df, Val(data), Val(bounds),
                                            Val(origin), Val(spacing)))
            /\ nodules_pat_pos' = Some(NodPatPos(nodules_df))
            /\ ret' = Returned("fetch_nodules_info", "ok")
    /\ UNCHANGED <<data, bounds, mask, origin, spacing, rbatch, sampled, dumped, mask_view, pc,
                   todo, all_results, kwargs, nresize, started>>

\* ------------------------------------------------------------ masks
\* np.rint(np.abs(center - origin) / spacing) of one nodule
center_pix(nod) ==
    [a \in Axes |-> rint(Abs(nod.center[a] - nod.origin[a]) * nod.spacing[a][2],
                         nod.spacing[a][1])]

\* np.rint(size / spacing).astype(np.int) of one nodule
size_pix(nod) ==
    [a \in Axes |-> rint(nod.size[a] * nod.spacing[a][2], nod.spacing[a][1])]

\* (center_pix - np.rint(size_pix / 2)).astype(np.int) of one nodule
start_pix(nod) ==
    [a \in Axes |-> center_pix(nod)[a] - rint(size_pix(nod)[a], 2)]

\* get_mask(pos): the view mask[bounds[pos]: bounds[pos + 1], :, :]; a slice is
\* cut at the array's end
get_mask(m, b, pos) ==
    [lower |-> Min(b[pos], m.shape[1]),
     shape |-> <<Min(b[pos + 1], m.shape[1]) - Min(b[pos], m.shape[1]),
                 m.shape[2], m.shape[3]>>]

\* the voxels of the box [start, start + size) that lie inside the view
Box(view, start, size) ==
    { <<view.lower + z, y, x>> :
        z \in Max(0, start[1])..(Min(view.shape[1], start[1] + size[1]) - 1),
        y \in Max(0, start[2])..(Min(view.shape[2], start[2] + size[2]) - 1),
        x \in Max(0, start[3])..(Min(view.shape[3], start[3] + size[3]) - 1) }

\* make_mask_patient(pat_mask, start, size): the voxels it sets to 1, one box
\* per nodule of the group, cut to the scan's mask
make_mask_patient(view, nods, group) ==
    UNION { Box(view, start_pix(nods[i]), size_pix(nods[i])) : i \in group }

\* the nodules of the scan at position pos: ndarray_mask
ndarray_mask(ppos, pos) == { i \in DOMAIN ppos : ppos[i] = pos }

\* the positions create_mask and _init_create_mask call make_mask_patient for
Owners(ppos) == { pos \in Positions : ndarray_mask(ppos, pos) # {} }

\* a create_mask that flips the voxels of the nodule boxes instead of setting them
MaskBuilt_toggle(m, b, nods, ppos) ==
    LET boxes == UNION { make_mask_patient(get_mask(m, b, pos), nods,
                                           ndarray_mask(ppos, pos)) :
                         pos \in Owners(ppos) }
    IN  [m EXCEPT !.ones = (@ \ boxes) \cup (boxes \ @)]

\* a create_mask that clears the mask before it draws the nodule boxes
MaskBuilt_overwrite(m, b, nods, ppos) ==
    [m EXCEPT !.ones =
        UNION { make_mask_patient(get_mask(m, b, pos), nods, ndarray_mask(ppos, pos)) :
                pos \in Owners(ppos) }]

\* the positions whose (self.nodules_pat_pos == position) has a True entry:
\* none when nodules_pat_pos is None
OwnersOf(pat_pos) == IF pat_pos = None THEN {} ELSE Owners(Val(pat_pos))

\* start_pix[ndarray_mask, :] raises IndexError when the boolean index and the
\* table differ in length
CanIndex(nods, pat_pos) == Len(Val(pat_pos)) = Len(Val(nods))

\* the body of create_mask: the mask after the loop over self.indices
MaskBuilt(m, b, nods, ppos) ==
    [m EXCEPT !.ones = @ \cup
        UNION { make_mask_patient(get_mask(m, b, pos), nods, ndarray_mask(ppos, pos)) :
                pos \in Owners(ppos) }]

\* create_mask() taking a missing table for an empty one
create_mask_unguarded ==
    /\ Idle
    /\ entry' = Some(Snapshot)
    /\ IF nodules # None /\ mask = None /\ OwnersOf(nodules_pat_pos) # {}
       THEN /\ ret' = Returned("create_mask", "TypeError")
            /\ UNCHANGED mask
       ELSE IF nodules # None /\ OwnersOf(nodules_pat_pos) # {}
               /\ ~CanIndex(nodules, nodules_pat_pos)
       THEN /\ ret' = Returned("create_mask", "IndexError")
            /\ UNCHANGED mask
       ELSE /\ mask' = IF nodules = None \/ OwnersOf(nodules_pat_pos) = {} THEN mask
                       ELSE Some(MaskBuilt(Val(mask), Val(bounds), Val(nodules),
                                           Val(nodules_pat_pos)))
            /\ ret' = Returned("create_mask", "ok")
    /\ UNCHANGED <<data, bounds, origin, spacing, nodules, nodules_pat_pos,
                   rbatch, sampled, dumped, mask_view, pc, todo, all_results, kwargs, nresize,
                   started>>

\* create_mask()
create_mask ==
    /\ Idle
    /\ entry' = Some(Snapshot)
    /\ IF nodules = None
       THEN /\ ret' = Returned("create_mask", "AttributeError")
            /\ UNCHANGED mask
       ELSE IF mask = None /\ OwnersOf(nodules_pat_pos) # {}
       THEN \* self.mask[lower: upper] of None
            /\ ret' = Returned("create_mask", "TypeError")
            /\ UNCHANGED mask
       ELSE IF OwnersOf(nodules_pat_pos) # {} /\ ~CanIndex(nodules, nodules_pat_pos)
       THEN /\ ret' = Returned("create_mask", "IndexError")
            /\ UNCHANGED mask
       ELSE /\ mask' = IF OwnersOf(nodules_pat_pos) = {} THEN mask
                       ELSE Some(MaskBuilt(Val(mask), Val(bounds), Val(nodules),
                                           Val(nodules_pat_pos)))
            /\ ret' = Returned("create_mask", "ok")
    /\ UNCHANGED <<data, bounds, origin, spacing, nodules, nodules_pat_pos,
                   rbatch, sampled, dumped, mask_view, pc, todo, all_results, kwargs, nresize,
                   started>>

\* ------------------------------------------------------------ create_mask_parallel
\* the keys of every item of the args_list _init_create_mask returns
init_create_mask_keys == {"patient_mask", "start", "size"}

\* the parameters of create_mask_parallel after self
create_mask_parallel_params == {"patient_id", "start", "size"}

\* inbatch_parallel calls method(self, **item) for an item that is a dict: the call
\* is made when the keys are the method's parameters (none has a default), and
\* raises TypeError otherwise
BindsCall(keys, params) == keys = params

\* assert "<message>": the assert of a non-empty string passes
AssertPasses(message) == message # ""

\* _post_create_mask(list_of_res): how the call ends
_post_create_mask(list_of_res) ==
    IF any_action_failed(list_of_res)
          /\ ~AssertPasses("Some actions failed during threading")
    THEN "AssertionError"
    ELSE "ok"

\* create_mask_parallel(): _init_create_mask, then one task per scan that owns nodules
create_mask_parallel ==
    /\ Idle
    /\ entry' = Some(Snapshot)
    /\ IF nodules = None
       THEN \* _init_create_mask: self.nodules.center of None
            /\ ret' = Returned("create_mask_parallel", "AttributeError")
            /\ UNCHANGED <<pc, todo, all_results>>
       ELSE IF OwnersOf(nodules_pat_pos) # {} /\ ~CanIndex(nodules, nodules_pat_pos)
       THEN \* _init_create_mask: start_pix[ndarray_mask, :]
            /\ ret' = Returned("create_mask_parallel", "IndexError")
            /\ UNCHANGED <<pc, todo, all_results>>
       ELSE /\ pc' = "create_mask_parallel"
            /\ todo' = OwnersOf(nodules_pat_pos)
            /\ all_results' = NoResults
            /\ UNCHANGED ret
    /\ UNCHANGED <<batch, rbatch, sampled, dumped, mask_view, kwargs, nresize, started>>

\* one task: create_mask_parallel(**item) for the item of the scan at position pos
create_mask_parallel_task(pos) ==
    /\ pc = "create_mask_parallel"
    /\ pos \in todo
    /\ IF ~BindsCall(init_create_mask_keys, create_mask_parallel_params) \/ mask = None
       THEN /\ all_results' = [all_results EXCEPT ![pos] = Some(Raised("TypeError"))]
            /\ UNCHANGED mask
       ELSE /\ mask' = Some([Val(mask) EXCEPT !.ones = @ \cup
                              make_mask_patient(get_mask(Val(mask), Val(bounds), pos),
                                                Val(nodules),
                                                ndarray_mask(Val(nodules_pat_pos), pos))])
            /\ all_results' = [all_results EXCEPT ![pos] = Some(Done(None))]
    /\ todo' = todo \ {pos}
    /\ UNCHANGED <<data, bounds, origin, spacing, nodules, nodules_pat_pos,
                   rbatch, sampled, dumped, mask_view, pc, kwargs, ret, entry, nresize, started>>

\* all tasks have finished: _post_create_mask
create_mask_parallel_post ==
    /\ pc = "create_mask_parallel"
    /\ todo = {}
    /\ ret' = Returned("create_mask_parallel", _post_create_mask(all_results))
    /\ pc' = "idle"
    /\ UNCHANGED <<batch, rbatch, sampled, dumped, mask_view, todo, all_results, kwargs, entry, nresize, started>>

\* ------------------------------------------------------------ resize
\* the shapes (z, y, x) resize is called with
TargetShapes == {<<2, 2, 2>>, <<4, 3, 2>>}

\* self.spacing with every row times new_shape / old_shape
RescaledSpacing_inverted(spc, d, b, new_shape) ==
    [p \in Positions |->
        [a \in Axes |-> Rat(spc[p][a][1] * new_shape[a],
                            spc[p][a][2] * scan_shape(d, b, p)[a])]]

\* self.spacing after the loop of _rescale_spacing: every row times old_shape / new_shape
RescaledSpacing(spc, d, b, new_shape) ==
    [p \in Positions |->
        [a \in Axes |-> Rat(spc[p][a][1] * scan_shape(d, b, p)[a],
                            spc[p][a][2] * new_shape[a])]]

\* self.nodules after _rescale_spacing: spacing, img_size and bias rewritten
RescaledNodules(nods, ppos, spc, new_shape) ==
    LET \* an array of one position is broadcast to every nodule
        at(i) == IF Len(ppos) = 1 THEN ppos[1] ELSE ppos[i]
    IN  [i \in DOMAIN nods |->
            [nods[i] EXCEPT !.spacing = spc[at(i)],
                            !.img_size = new_shape,
                            !.bias = <<at(i) * new_shape[1], 0, 0>>]]

\* how the nodules part of _rescale_spacing ends: self.nodules_pat_pos.shape of
\* None raises AttributeError, the assignment of self.spacing[nodules_pat_pos, :]
\* to self.nodules.spacing raises ValueError when it cannot be broadcast
rescale_nodules_error(nods, pat_pos) ==
    IF nods = None THEN ""
    ELSE IF pat_pos = None THEN "AttributeError"
    ELSE IF Len(Val(pat_pos)) \notin {Len(Val(nods)), 1} THEN "ValueError"
    ELSE ""

\* resize taking the shape of the signature's default when none is given
resize_default_shape(shape_given, shape, new_batch) ==
    /\ Idle
    /\ entry' = Some(Snapshot)
    /\ IF data = None
       THEN \* self.get_image(patient_id) of an empty batch
            /\ ret' = Returned("resize", "TypeError")
            /\ UNCHANGED <<spacing, nodules, pc, todo, all_results,
                           kwargs, nresize>>
       ELSE /\ nresize < MaxResizes
            /\ nresize' = nresize + 1
            /\ LET given == IF shape_given THEN shape ELSE <<2, 2, 2>>
                   s == IF spacing = None THEN None
                        ELSE Some(RescaledSpacing(Val(spacing), Val(data),
                                                  Val(bounds), given))
                   err == IF spacing = None THEN ""
                          ELSE rescale_nodules_error(nodules, nodules_pat_pos)
                   n == IF spacing = None \/ nodules = None \/ err # "" THEN nodules
                        ELSE Some(RescaledNodules(Val(nodules), Val(nodules_pat_pos),
                                                  Val(s), given))
               IN  /\ spacing' = s
                   /\ nodules' = n
                   /\ IF err # ""
                      THEN \* _rescale_spacing raises after it has rewritten self.spacing
                           /\ ret' = Returned("resize", err)
                           /\ UNCHANGED <<pc, todo, all_results, kwargs>>
                      ELSE /\ pc' = "resize"
                           /\ todo' = Positions
                           /\ all_results' = NoResults
                           /\ kwargs' = Some([shape |-> IF shape_given THEN shape ELSE <<2, 2, 2>>,
                                              new_batch |-> new_batch])
                           /\ UNCHANGED ret
    /\ UNCHANGED <<data, bounds, mask, origin, nodules_pat_pos, rbatch, sampled, dumped, mask_view, started>>

\* resize(shape=..., new_batch=...): _init_rebuild rescales the spacing and the
\* nodules of self in place, then one task per scan is dispatched;
\* resize without shape raises TypeError in _init_rebuild
resize(shape_given, shape, new_batch) ==
    /\ Idle
    /\ entry' = Some(Snapshot)
    /\ IF ~shape_given \/ data = None
       THEN \* 'shape' not in kwargs; self.get_image(patient_id) of an empty batch
            /\ ret' = Returned("resize", "TypeError")
            /\ UNCHANGED <<spacing, nodules, pc, todo, all_results,
                           kwargs, nresize>>
       ELSE /\ nresize < MaxResizes
            /\ nresize' = nresize + 1
            /\ LET s == IF spacing = None THEN None
                        ELSE Some(RescaledSpacing(Val(spacing), Val(data),
                                                  Val(bounds), shape))
                   err == IF spacing = None THEN ""
                          ELSE rescale_nodules_error(nodules, nodules_pat_pos)
                   n == IF spacing = None \/ nodules = None \/ err # "" THEN nodules
                        ELSE Some(RescaledNodules(Val(nodules), Val(nodules_pat_pos),
                                                  Val(s), shape))
               IN  /\ spacing' = s
                   /\ nodules' = n
                   /\ IF err # ""
                      THEN \* _rescale_spacing raises after it has rewritten self.spacing
                           /\ ret' = Returned("resize", err)
                           /\ UNCHANGED <<pc, todo, all_results, kwargs>>
                      ELSE /\ pc' = "resize"
                           /\ todo' = Positions
                           /\ all_results' = NoResults
                           /\ kwargs' = Some([shape |-> shape,
                                              new_batch |-> new_batch])
                           /\ UNCHANGED ret
    /\ UNCHANGED <<data, bounds, mask, origin, nodules_pat_pos, rbatch, sampled, dumped, mask_view, started>>

\* one task: resize_patient_numba gives the scan at position pos, resampled
resize_task(pos) ==
    /\ pc = "resize"
    /\ pos \in todo
    /\ LET shape == Val(kwargs).shape
       IN  all_results' = [all_results EXCEPT ![pos] =
               Some(Done([shape |-> shape,
                          slices |-> [z \in Range(shape[1]) |->
                                         Slice("resize", pos, z, nresize)]]))]
    /\ todo' = todo \ {pos}
    /\ UNCHANGED <<batch, rbatch, sampled, dumped, mask_view, pc, kwargs, ret, entry, nresize, started>>

\* batch.mask of _post_rebuild without the call of create_mask
RebuiltMask_zeros(d, b, nods, ppos) == zeros_like(d)

\* batch.mask of _post_rebuild: zeros, then batch.create_mask() if self has nodules
RebuiltMask(d, b, nods, ppos) ==
    IF nods = None \/ OwnersOf(ppos) = {} THEN zeros_like(d)
    ELSE MaskBuilt(zeros_like(d), b, Val(nods), Val(ppos))

\* _post_rebuild(all_outputs, new_batch): the scans are concatenated in position
\* order into self or into a new batch, which gets self's origin, spacing and
\* nodules objects and a rebuilt mask
_post_rebuild ==
    /\ pc = "resize"
    /\ todo = {}
    /\ LET arrs == [p \in Positions |-> Val(all_results[p]).value]
           d == Concatenate(arrs)
           b == CumBounds(arrs)
           \* batch.create_mask() raises when the positions and the table differ
           \* in length; batch.mask is the array of zeros then
           fails == /\ nodules # None
                    /\ OwnersOf(nodules_pat_pos) # {}
                    /\ ~CanIndex(nodules, nodules_pat_pos)
           m == IF fails THEN zeros_like(d)
                ELSE RebuiltMask(d, b, nodules, nodules_pat_pos)
       IN  /\ IF Val(kwargs).new_batch
              THEN /\ rbatch' = IF fails THEN None
                                ELSE Some([data |-> Some(d), bounds |-> Some(b),
                                           mask |-> Some(m), origin |-> origin,
                                           spacing |-> spacing, nodules |-> nodules,
                                           nodules_pat_pos |-> nodules_pat_pos])
                   /\ UNCHANGED <<data, bounds, mask>>
              ELSE /\ data' = Some(d)
                   /\ bounds' = Some(b)
                   /\ mask' = Some(m)
                   /\ UNCHANGED rbatch
           /\ ret' = Returned("resize", IF fails THEN "IndexError" ELSE "ok")
    /\ pc' = "idle"
    /\ kwargs' = None
    /\ UNCHANGED <<origin, spacing, nodules, nodules_pat_pos, sampled, dumped, mask_view, todo,
                   all_results, entry, nresize, started>>

\* ------------------------------------------------------------ sample_nodules
\* the nodule_size (z, y, x) sample_nodules is called with
PatchSizes == {<<1, 2, 1>>, <<2, 3, 2>>}

\* the values np.random.rand gives, fractions in [0, 1)
Rands == {<<0, 1>>, <<1, 2>>}

\* the share sample_nodules is called with, as fractions a float holds exactly
Shares == {<<0, 1>>, <<3, 4>>, <<1, 1>>}

\* _shift_out_of_bounds(size), the row of one nodule: the start of the patch
\* around the nodule's center, shifted into the image, in skyscraper coordinates
_shift_out_of_bounds(nod, size) ==
    [a \in Axes |->
        LET start == rint(Abs(nod.center[a] - nod.origin[a]) * nod.spacing[a][2],
                          nod.spacing[a][1]) - rint(size[a], 2)
            end == start + size[a]
            bias_upper == IF end > nod.img_size[a] THEN end - nod.img_size[a] ELSE 0
            shifted == start - bias_upper
            bias_lower == IF shifted < 0 THEN -shifted ELSE 0
        IN  shifted + bias_lower + nod.bias[a]]

\* sample_random_nodules, the row of one draw: scan position pos was drawn and
\* np.random.rand gave the fraction rand[a] on axis a; the start as fractions
sample_random_nodules(d, b, pos, rand, nodule_size) ==
    LET shape_z == b[pos] - b[pos + 1]
        offset == <<b[pos], 0, 0>>
        data_shape == <<shape_z, d.shape[2], d.shape[3]>>
    IN  [a \in Axes |->
            <<rand[a][1] * (data_shape[a] - nodule_size[a]) + offset[a] * rand[a][2],
              rand[a][2]>>]

\* .astype('int32') of a row of fractions
astype_int(row) == [a \in Axes |-> int(row[a][1], row[a][2])]

\* the draws one random patch can come from: the scan position and the start
RandomDraws(d, b, nodule_size) ==
    { [pos |-> pos,
       start |-> astype_int(sample_random_nodules(d, b, pos, rand, nodule_size))] :
      pos \in Positions, rand \in [Axes -> Rands] }

\* a Python index i of a slice bound on an axis of length n
SliceBound(i, n) == IF i < 0 THEN Max(i + n, 0) ELSE Min(i, n)

\* arr[start: start + size] assigned to size places: the source index of each
\* place (a source of length 1 is broadcast), or None when the lengths differ
SliceIndices(start, size, n) ==
    LET lo == SliceBound(start, n)
        len == Max(SliceBound(start + size, n) - lo, 0)
    IN  IF len = size THEN Some([j \in Range(size) |-> lo + j])
        ELSE IF len = 1 THEN Some([j \in Range(size) |-> lo])
        ELSE None

\* the three index maps of one patch, or None
PatchIndices(shape, position, size) ==
    LET idx == [a \in Axes |-> SliceIndices(position[a], size[a], shape[a])]
    IN  IF \E a \in Axes : idx[a] = None THEN None
        ELSE Some([a \in Axes |-> Val(idx[a])])

\* whether get_nodules_jit(arr, positions, size) returns: every patch has a source
CanGetNodules(shape, positions, size) ==
    \A i \in DOMAIN positions : PatchIndices(shape, positions[i], size) # None

\* get_nodules_jit(data, positions, size): the patches stacked along axis 0
get_nodules_jit(d, positions, size) ==
    LET n == Len(positions)
        idx == [i \in 1..n |-> Val(PatchIndices(d.shape, positions[i], size))]
    IN  [shape |-> <<n * size[1], size[2], size[3]>>,
         slices |-> [j \in Range(n * size[1]) |->
                        LET at == idx[(j \div size[1]) + 1]
                        IN  [of |-> d.slices[at[1][j % size[1]]],
                             y |-> at[2][0], x |-> at[3][0]]]]

\* get_nodules_jit(mask, positions, size)
get_nodules_jit_mask(m, positions, size) ==
    LET n == Len(positions)
        idx == [i \in 1..n |-> Val(PatchIndices(m.shape, positions[i], size))]
    IN  [shape |-> <<n * size[1], size[2], size[3]>>,
         ones |-> IF m.ones = {} THEN {}
                  ELSE { <<(t[1] - 1) * size[1] + t[2], t[3], t[4]>> :
                           t \in { u \in (1..n) \X Range(size[1]) \X Range(size[2])
                                            \X Range(size[3]) :
                                     <<idx[u[1]][1][u[2]], idx[u[1]][2][u[3]],
                                       idx[u[1]][3][u[4]]>> \in m.ones } }]

\* cancer_n with the product rounded to the nearest integer
cancer_n_rounded(share, batch_size, n_nodules) ==
    LET wanted == rint(share[1] * batch_size, share[2])
    IN  IF wanted > n_nodules THEN n_nodules ELSE wanted

\* cancer_n of sample_nodules
cancer_n(share, batch_size, n_nodules) ==
    LET wanted == int(share[1] * batch_size, share[2])
    IN  IF wanted > n_nodules THEN n_nodules ELSE wanted

\* bounds of the batch sample_nodules returns
sample_bounds(d, nodule_size) == [i \in Range(d.shape[1] + 1) |-> i * nodule_size[1]]

\* np.random.choice(np.arange(n), size=k, replace=False): the arrays it can give
Choices(n, k) ==
    { f \in [1..k -> 1..n] : \A i, j \in 1..k : i # j => f[i] # f[j] }

\* the batch sample_nodules builds: CTImagesMaskedBatch(make_indices(batch_size)),
\* load(src=data, fmt='ndarray', bounds=bounds), then mask, origin, spacing are set
NodulesBatch(batch_size, d, m, b) ==
    [index_len |-> batch_size, data |-> Some(d), bounds |-> Some(b),
     mask |-> Some(m), origin |-> None, spacing |-> None, nodules |-> None,
     nodules_pat_pos |-> None]

\* sample_nodules(batch_size, nodule_size, share)
sample_nodules(batch_size, nodule_size, share) ==
    /\ Idle
    /\ entry' = Some(Snapshot)
    /\ IF nodules = None
       THEN /\ ret' = Returned("sample_nodules", "AttributeError")
            /\ sampled' = None
       ELSE IF nodules_pat_pos = None
       THEN \* self.nodules_pat_pos.shape of None
            /\ ret' = Returned("sample_nodules", "AttributeError")
            /\ sampled' = None
       ELSE LET n_nodules == Len(Val(nodules_pat_pos))
                k == cancer_n(share, batch_size, n_nodules)
            IN  \E sample_indices \in Choices(n_nodules, k),
                   draws \in [1..(batch_size - k) ->
                                 RandomDraws(Val(data), Val(bounds), nodule_size)] :
                  IF \E i \in 1..k : sample_indices[i] > Len(Val(nodules))
                  THEN \* cancer_nodules[sample_indices, :] beyond the table's rows
                       /\ ret' = Returned("sample_nodules", "IndexError")
                       /\ sampled' = None
                  ELSE
                    LET cancer_nodules ==
                            [i \in 1..k |->
                                _shift_out_of_bounds(Val(nodules)[sample_indices[i]],
                                                     nodule_size)]
                        random_nodules == [i \in 1..(batch_size - k) |-> draws[i].start]
                        nodules_indices == cancer_nodules \o random_nodules
                        err == IF mask = None THEN "TypeError"
                               ELSE IF CanGetNodules(Val(data).shape, nodules_indices,
                                                     nodule_size)
                                       /\ CanGetNodules(Val(mask).shape, nodules_indices,
                                                        nodule_size)
                               THEN "ok" ELSE "ValueError"
                        d == get_nodules_jit(Val(data), nodules_indices, nodule_size)
                        m == get_nodules_jit_mask(Val(mask), nodules_indices, nodule_size)
                    IN  /\ sampled' =
                              Some([batch_size |-> batch_size,
                                    nodule_size |-> nodule_size,
                                    share |-> share,
                                    n_nodules |-> n_nodules,
                                    cancer_nodules |-> cancer_nodules,
                                    sample_indices |-> sample_indices,
                                    draws |-> draws,
                                    out |-> IF err # "ok" THEN None
                                            ELSE Some(NodulesBatch(batch_size, d, m,
                                                        sample_bounds(d, nodule_size)))])
                        /\ ret' = Returned("sample_nodules", err)
    /\ UNCHANGED <<batch, rbatch, dumped, mask_view, pc, todo, all_results, kwargs, nresize, started>>

\* ------------------------------------------------------------ dump
\* a Python str, by its characters, and a list or tuple, by its items
Str(chars) == [type |-> "str", items |-> chars]
List(items) == [type |-> "list", items |-> items]

\* len(x) of a str or a list
len(x) == Len(x.items)

\* what iterating over x gives: the items of a list, the characters of a str
\* as strs of length 1
Iter(x) ==
    IF x.type = "str" THEN [i \in 1..Len(x.items) |-> Str(<<x.items[i]>>)]
    ELSE x.items

\* zip(a, b): pairs up to the shorter length
zip(a, b) == [i \in 1..Min(len(a), len(b)) |-> <<Iter(a)[i], Iter(b)[i]>>]

SourceStr == Str(<<"s", "o", "u", "r", "c", "e">>)
MaskStr == Str(<<"m", "a", "s", "k">>)
\* dtype_values of dump
dtype_values == {SourceStr, MaskStr}

\* the directories dump is called with
DataDir == Str(<<"/", "d">>)
MaskDir == Str(<<"/", "m">>)

\* the arguments (dst, dtype) dump is called with: a single path with a single
\* selector, parallel lists, lists of different lengths, a list with a str,
\* a selector that is neither 'source' nor 'mask'
DumpArgs ==
    { <<DataDir, SourceStr>>,
      <<MaskDir, MaskStr>>,
      <<List(<<DataDir>>), List(<<SourceStr>>)>>,
      <<List(<<DataDir, MaskDir>>), List(<<SourceStr, MaskStr>>)>>,
      <<List(<<DataDir>>), List(<<SourceStr, MaskStr>>)>>,
      <<List(<<DataDir, MaskDir>>), List(<<MaskStr>>)>>,
      <<List(<<DataDir>>), SourceStr>>,
      <<List(<<DataDir>>), List(<<Str(<<"x">>)>>)>> }

\* the checks of dump without the comparison of the lengths
dump_check_no_length(dst, dtype) ==
    IF dtype.type = "list"
    THEN IF \E i \in DOMAIN dtype.items : dtype.items[i] \notin dtype_values
         THEN "ValueError"
         ELSE "ok"
    ELSE IF ~(dtype.type = "str" /\ dst.type = "str") THEN "ValueError"
    ELSE "ok"

\* the checks of dump on its arguments: how they end
dump_check(dst, dtype) ==
    IF dtype.type = "list"
    THEN IF \E i \in DOMAIN dtype.items : dtype.items[i] \notin dtype_values
         THEN "ValueError"
         ELSE IF len(dtype) # len(dst) THEN "ValueError" ELSE "ok"
    ELSE IF ~(dtype.type = "str" /\ dst.type = "str") THEN "ValueError"
    ELSE "ok"

\* self.data[lower: upper, :, :] of the scan at position p
DataBlob(d, b, p) ==
    [shape |-> scan_shape(d, b, p),
     slices |-> [z \in Range(b[p + 1] - b[p]) |-> d.slices[b[p] + z]]]

\* self.mask[lower: upper, :, :] of the scan at position p
MaskBlob(m, b, p) ==
    LET view == get_mask(m, b, p)
    IN  [shape |-> view.shape,
         ones |-> { <<v[1] - view.lower, v[2], v[3]>> :
                      v \in { w \in m.ones : /\ view.lower <= w[1]
                                             /\ w[1] < view.lower + view.shape[1] } }]

\* the calls of dump_blosc the two loops of dump make when nothing raises, in
\* order: for every scan, for every pair of zip(dtype, dst) whose selector is
\* 'source' or 'mask'
DumpCalls(dst, dtype) ==
    LET selected == SelectSeq(zip(dtype, dst), LAMBDA pair : pair[1] \in dtype_values)
        k == Len(selected)
    IN  [j \in 1..(NScans * k) |->
            [pos |-> (j - 1) \div k,
             index |-> indices[((j - 1) \div k) + 1],
             kind |-> selected[((j - 1) % k) + 1][1],
             path |-> selected[((j - 1) % k) + 1][2]]]

\* dump_blosc(data, index, path): the blob written to path/index/data.blk,
\* in place of whatever path/index held
dump_blosc(blob, index, path) == [path |-> path, index |-> index, blob |-> blob]

\* dump(dst, fmt='blosc', dtype): the blobs are recorded in the order written;
\* a call that needs an array that is None raises TypeError and ends the loop
dump(dst, dtype) ==
    /\ Idle
    /\ entry' = Some(Snapshot)
    /\ LET calls == DumpCalls(dst, dtype)
           fails(j) == \/ calls[j].kind = SourceStr /\ data = None
                       \/ calls[j].kind = MaskStr /\ mask = None
           failing == { j \in DOMAIN calls : fails(j) }
           n == IF failing = {} THEN Len(calls)
                ELSE (CHOOSE j \in failing : \A i \in failing : j <= i) - 1
           err == IF dump_check(dst, dtype) # "ok" THEN dump_check(dst, dtype)
                  ELSE IF bounds = None \/ failing # {} THEN "TypeError"
                  ELSE "ok"
           written ==
               IF dump_check(dst, dtype) # "ok" \/ bounds = None THEN <<>>
               ELSE [j \in 1..n |->
                        dump_blosc(IF calls[j].kind = SourceStr
                                   THEN DataBlob(Val(data), Val(bounds), calls[j].pos)
                                   ELSE MaskBlob(Val(mask), Val(bounds), calls[j].pos),
                                   calls[j].index, calls[j].path)]
       IN  /\ dumped' = Some([dst |-> dst, dtype |-> dtype, written |-> written])
           /\ ret' = Returned("dump", err)
    /\ UNCHANGED <<batch, rbatch, sampled, mask_view, pc, todo, all_results, kwargs, nresize, started>>

\* ------------------------------------------------------------ get_mask(index)
\* the argument of get_mask: an int, or an identifier of the index
IntIndex(n) == [type |-> "int", v |-> n]
IdIndex(id) == [type |-> "id", v |-> id]
GetMaskInts == { IntIndex(n) : n \in -1..NScans }
GetMaskIds == { IdIndex(indices[i]) : i \in DOMAIN indices }

\* self._bounds.shape[0]
bounds_shape0(b) == Cardinality(DOMAIN b)

\* get_mask keeping an int index below shape[0] - 2
get_mask_pos_short(b, index) ==
    IF index.type = "int"
    THEN IF index.v < bounds_shape0(b) - 2 /\ index.v >= 0 THEN Some(index.v) ELSE None
    ELSE Some(get_pos(index.v))

\* the position get_mask takes for index, or None where it raises IndexError
get_mask_pos(b, index) ==
    IF index.type = "int"
    THEN IF index.v < bounds_shape0(b) - 1 /\ index.v >= 0 THEN Some(index.v) ELSE None
    ELSE Some(get_pos(index.v))

\* get_mask(index) called from outside: the view it returns is recorded;
\* self._bounds.shape of None raises AttributeError, a subscript of None TypeError
get_mask_call(index) ==
    /\ Idle
    /\ entry' = Some(Snapshot)
    /\ LET err == IF bounds = None
                  THEN IF index.type = "int" THEN "AttributeError" ELSE "TypeError"
                  ELSE IF get_mask_pos(Val(bounds), index) = None THEN "IndexError"
                  ELSE IF mask = None THEN "TypeError"
                  ELSE "ok"
       IN  /\ mask_view' = Some([index |-> index,
                                 value |-> IF err # "ok" THEN None
                                           ELSE Some(get_mask(Val(mask), Val(bounds),
                                                       Val(get_mask_pos(Val(bounds), index))))])
           /\ ret' = Returned("get_mask", err)
    /\ UNCHANGED <<batch, rbatch, sampled, dumped, pc, todo, all_results, kwargs, nresize, started>>

\* the caller takes what the last call returned or raised, and goes on
return ==
    /\ pc = "idle"
    /\ ret # None
    /\ ret' = None
    /\ entry' = None
    /\ sampled' = None
    /\ dumped' = None
    /\ mask_view' = None
    /\ rbatch' = None
    /\ all_results' = NoResults
    /\ UNCHANGED <<batch, pc, todo, kwargs, nresize, started>>

Next ==
    \/ load
    \/ \E df \in NodulesDf, update \in BOOLEAN : fetch_nodules_info(df, update)
    \/ create_mask
    \/ create_mask_parallel
    \/ \E pos \in Positions : create_mask_parallel_task(pos)
    \/ create_mask_parallel_post
    \/ \E shape \in TargetShapes, new_batch \in BOOLEAN : resize(TRUE, shape, new_batch)
    \/ resize(FALSE, None, FALSE)
    \/ \E pos \in Positions : resize_task(pos)
    \/ _post_rebuild
    \/ \E batch_size \in 1..MaxBatchSize, nodule_size \in PatchSizes, share \in Shares :
          sample_nodules(batch_size, nodule_size, share)
    \/ \E args \in DumpArgs : dump(args[1], args[2])
    \/ \E index \in GetMaskInts : get_mask_call(index)
    \/ \E index \in GetMaskIds : get_mask_call(index)
    \/ return

Spec == Init /\ [][Next]_vars

\* the calls of Next, and load(fmt='ndarray') with a nodules table
NextNodules ==
    \/ Next
    \/ load_nodules

SpecNodules == Init /\ [][NextNodules]_vars

\* ------------------------------------------------------------ properties
\* sample_nodules has returned a batch
SampleReturned == sampled # None /\ Val(sampled).out # None

\* C1: the batch sample_nodules returns has bounds of exactly batch_size + 1
\* entries, 0, pz, 2 pz, ..., batch_size * pz for patch depth pz, and the last
\* entry is the number of z-slices of the returned data.
C1_SampleBounds ==
    SampleReturned =>
        LET s == Val(sampled)
            o == Val(s.out)
            b == Val(o.bounds)
        IN  /\ DOMAIN b = 0..s.batch_size
            /\ \A i \in 0..s.batch_size : b[i] = i * s.nodule_size[1]
            /\ b[s.batch_size] = Val(o.data).shape[1]

\* every scan of the batch is at least as large as the patch on every axis
ScansHold(d, b, size) ==
    \A p \in Positions : \A a \in Axes : scan_shape(d, b, p)[a] >= size[a]

\* C2: when every scan is at least as large as the patch, the start of every
\* random candidate lies inside the scan that was drawn for it: on z between
\* bounds[p] and bounds[p + 1] - pz, on y and x between 0 and the scan's
\* extent minus the patch's.
C2_RandomStartInsideScan ==
    sampled # None =>
        LET s == Val(sampled)
            size == s.nodule_size
            d == Val(data)
            b == Val(bounds)
        IN  ScansHold(d, b, size) =>
                \A i \in DOMAIN s.draws :
                    LET p == s.draws[i].pos
                        start == s.draws[i].start
                    IN  /\ b[p] <= start[1]
                        /\ start[1] + size[1] <= b[p + 1]
                        /\ \A a \in 2..3 : 0 <= start[a] /\ start[a] + size[a] <= d.shape[a]

\* the patches of a sample_nodules call: k centred on distinct nodules of the
\* table, the other batch_size - k random
SampleSplit(s, k) ==
    /\ Len(s.cancer_nodules) = k
    /\ Len(s.draws) = s.batch_size - k
    /\ \A i, j \in 1..k : i # j => s.sample_indices[i] # s.sample_indices[j]
    /\ \A i \in 1..k : s.sample_indices[i] \in 1..s.n_nodules
    /\ s.out # None => Val(Val(s.out).data).shape[1] = s.batch_size * s.nodule_size[1]

\* C3 as stated: sample_nodules takes k = min(round(share * batch_size),
\* number of nodules) patches centred on nodules and batch_size - k random ones.
C3_RoundedShare ==
    sampled # None =>
        LET s == Val(sampled)
        IN  SampleSplit(s, Min(rint(s.share[1] * s.batch_size, s.share[2]), s.n_nodules))

\* C3 amended: k = min(int(share * batch_size), number of nodules), the product
\* truncated towards zero; k patches are centred on distinct nodules and
\* batch_size - k are random.
C3_TruncatedShare ==
    sampled # None =>
        LET s == Val(sampled)
            wanted == (s.share[1] * s.batch_size) \div s.share[2]
        IN  SampleSplit(s, Min(wanted, s.n_nodules))

\* a call whose product share * batch_size = 3/2 is not an integer: one patch
\* on a nodule, one random, and a batch came back
C3_Witness ==
    /\ SampleReturned
    /\ Val(sampled).share = <<3, 4>>
    /\ Val(sampled).batch_size = 2
    /\ Val(sampled).n_nodules = 3
    /\ Len(Val(sampled).cancer_nodules) = 1
    /\ Len(Val(sampled).draws) = 1

\* create_mask_parallel has returned or raised
ParallelMaskReturned == ret # None /\ Val(ret).op = "create_mask_parallel"

\* C4: when a task of the parallel mask build failed, the call does not end as
\* a success: it fails with the aggregate error.
C4_FailureReported ==
    (ParallelMaskReturned /\ any_action_failed(all_results)) => Val(ret).err # "ok"

\* the mask create_mask builds from the batch e
SerialMask(e) ==
    MaskBuilt(Val(e.mask), Val(e.bounds), Val(e.nodules), Val(e.nodules_pat_pos))

\* C5: after create_mask_parallel completes on a batch with a mask, whatever
\* order its tasks ran in, the mask is the one create_mask builds from the
\* same batch.
C5_ParallelEqualsSerial ==
    (ParallelMaskReturned /\ Val(ret).err = "ok" /\ Val(entry).mask # None) =>
        mask = Some(SerialMask(Val(entry)))

\* the voxels of a mask that lie in the slice of the scan at position pos
InSlice(m, b, pos) == { v \in m.ones : b[pos] <= v[1] /\ v[1] < b[pos + 1] }

\* C6: the tasks of create_mask_parallel write only their own scan's slice of
\* the mask, so when the task of one scan failed, the slice of every other scan
\* that owns nodules is as create_mask builds it, and the slice of a scan
\* without nodules is as it was.
C6_OtherScansPopulated ==
    (ParallelMaskReturned /\ nodules # None /\ Val(entry).mask # None) =>
        LET e == Val(entry)
            b == Val(bounds)
            owners == Owners(Val(nodules_pat_pos))
        IN  /\ \A q \in Positions \ owners :
                   InSlice(Val(mask), b, q) = InSlice(Val(e.mask), b, q)
            /\ \A p \in owners :
                   Val(all_results[p]).exc # "" =>
                       \A q \in owners \ {p} :
                           InSlice(Val(mask), b, q) = InSlice(SerialMask(e), b, q)

\* every record of the table nods caches the lower bound and the shape that
\* its owning scan has in the batch with data d and bounds b
TableMatches(nods, ppos, d, b) ==
    \A i \in DOMAIN nods :
        /\ nods[i].bias = <<b[ppos[i]], 0, 0>>
        /\ nods[i].img_size = scan_shape(d, b, ppos[i])

\* C7: once an operation that changes the bounds or the scans' shape has
\* returned, every nodule's bias is the lower bound of its owning scan and its
\* image size is that scan's shape, in the batch itself and in the batch that
\* resize returns.
C7_NodulesFollowGeometry ==
    pc = "idle" =>
        /\ nodules # None =>
               TableMatches(Val(nodules), Val(nodules_pat_pos), Val(data), Val(bounds))
        /\ (rbatch # None /\ Val(rbatch).nodules # None) =>
               LET r == Val(rbatch)
               IN  TableMatches(Val(r.nodules), Val(r.nodules_pat_pos),
                                Val(r.data), Val(r.bounds))

\* C8: whenever a batch has a mask, the mask has the shape of the batch's data,
\* also after load has replaced the data by an array of another shape; the
\* same holds for the batches resize and sample_nodules return.
C8_MaskShape ==
    pc = "idle" =>
        /\ mask # None => (data # None /\ Val(mask).shape = Val(data).shape)
        /\ rbatch # None => Val(Val(rbatch).mask).shape = Val(Val(rbatch).data).shape
        /\ SampleReturned =>
               LET o == Val(Val(sampled).out)
               IN  Val(o.mask).shape = Val(o.data).shape

\* the patch sizes (z, y, x) the clamp is examined for
ClampSizes == (1..4) \X (1..3) \X (1..2)

\* C9: for every nodule of the table and every patch size that the owning scan
\* is at least as large as, the start _shift_out_of_bounds gives describes a
\* patch that lies inside the owning scan: in the scan's own coordinates
\* between 0 and the scan's shape minus the size on every axis, only z shifted
\* by the scan's lower bound, so that on z it lies between bounds[p] and
\* bounds[p + 1] - pz.
C9_PositiveStartInsideScan ==
    (pc = "idle" /\ nodules # None) =>
        \A i \in DOMAIN Val(nodules) : \A size \in ClampSizes :
            LET nod == Val(nodules)[i]
                p == Val(nodules_pat_pos)[i]
                b == Val(bounds)
                image_size == scan_shape(Val(data), b, p)
                start == _shift_out_of_bounds(nod, size)
            IN  (\A a \in Axes : image_size[a] >= size[a]) =>
                    /\ b[p] <= start[1]
                    /\ start[1] + size[1] <= b[p + 1]
                    /\ \A a \in 2..3 : 0 <= start[a] /\ start[a] + size[a] <= image_size[a]

\* C10: create_mask and sample_nodules called on a batch without a nodule
\* table raise AttributeError at once: the batch is as it was, no task has
\* run and no batch is returned.
C10_MissingNodules ==
    (/\ ret # None
     /\ Val(ret).op \in {"create_mask", "sample_nodules"}
     /\ Val(entry).nodules = None) =>
        /\ Val(ret).err = "AttributeError"
        /\ Snapshot = Val(entry)
        /\ sampled = None
        /\ rbatch = None
        /\ all_results = NoResults
        /\ pc = "idle"

\* sample_nodules was called on a loaded batch with a mask and no table
C10_Witness ==
    /\ ret = Returned("sample_nodules", "AttributeError")
    /\ Val(entry).nodules = None
    /\ data # None
    /\ mask # None

\* dump has returned or raised
DumpReturned == ret # None /\ Val(ret).op = "dump"

\* the selected kinds with their destinations: one pair for a single selector
\* with a single path, one pair per place for parallel lists
Selected(dst, dtype) ==
    IF dtype.type = "str" THEN <<<<dtype, dst>>>>
    ELSE [i \in DOMAIN dtype.items |-> <<dtype.items[i], dst.items[i]>>]

\* C11: after a successful dump, given a single selector with a single path or
\* parallel lists, for every scan and every selected kind exactly one blob was
\* written under the kind's destination and the scan's identifier, and it
\* holds the scan's slice [bounds[p]: bounds[p + 1]] of the data or the mask.
C11_DumpPersistsEveryScan ==
    (/\ DumpReturned
     /\ Val(ret).err = "ok"
     /\ Val(dumped).dst.type = Val(dumped).dtype.type) =>
        LET w == Val(dumped).written
            sel == Selected(Val(dumped).dst, Val(dumped).dtype)
        IN  \A i \in DOMAIN sel : \A p \in Positions :
                LET at == { j \in DOMAIN w : /\ w[j].path = sel[i][2]
                                             /\ w[j].index = indices[p + 1] }
                IN  /\ Cardinality(at) = 1
                    /\ \A j \in at :
                           w[j].blob = IF sel[i][1] = SourceStr
                                       THEN DataBlob(Val(data), Val(bounds), p)
                                       ELSE MaskBlob(Val(mask), Val(bounds), p)

\* C12: dump called with a list of selectors and a list of destinations of
\* different lengths raises ValueError; no blob has been written, so nothing
\* that was at a destination has been removed, and the batch is as it was.
C12_DumpLengthMismatch ==
    (/\ DumpReturned
     /\ Val(dumped).dtype.type = "list"
     /\ Val(dumped).dst.type = "list"
     /\ len(Val(dumped).dtype) # len(Val(dumped).dst)) =>
        /\ Val(ret).err = "ValueError"
        /\ Val(dumped).written = <<>>
        /\ Snapshot = Val(entry)

\* dump was called on a loaded batch with a mask, with two valid selectors
\* and one destination
C12_Witness ==
    /\ DumpReturned
    /\ data # None
    /\ mask # None
    /\ Val(dumped).dtype = List(<<SourceStr, MaskStr>>)
    /\ Val(dumped).dst = List(<<DataDir>>)
    /\ Val(ret).err = "ValueError"

\* C13: load with a fmt other than 'raw' and 'ndarray', the default 'dicom'
\* included, raises (NotImplementedError or TypeError) and leaves data,
\* bounds, mask, origin, spacing and the nodule table as they were.
C13_LoadUnsupported ==
    [][(\E fmt \in OtherFmts : load_other(fmt)) =>
          /\ ret' # None
          /\ Val(ret').op = "load"
          /\ Val(ret').err \in {"NotImplementedError", "TypeError"}
          /\ batch' = batch
          /\ pc' = "idle"]_vars

\* load with the default fmt was called on a loaded batch with a nodule table
C13_Witness ==
    /\ ret = Returned("load", "NotImplementedError")
    /\ data # None
    /\ mask # None
    /\ nodules # None
    /\ Snapshot = Val(entry)

\* the view is the slice [b[p]: b[p + 1], :, :] of the mask m: its planes are
\* the planes of m from b[p] up to b[p + 1], whole in y and x
IsScanSlice(value, m, b, p) ==
    /\ value.lower..(value.lower + value.shape[1] - 1)
           = { z \in Range(m.shape[1]) : b[p] <= z /\ z < b[p + 1] }
    /\ value.shape[2] = m.shape[2]
    /\ value.shape[3] = m.shape[3]

\* C14: on a batch with bounds, get_mask of an int p raises IndexError when
\* p < 0 or p >= N, N = len(bounds) - 1; on a batch with a mask, get_mask of
\* any other int p returns mask[bounds[p]: bounds[p + 1], :, :], and get_mask
\* of an identifier returns that slice for the identifier's position.
C14_GetMask ==
    (mask_view # None /\ bounds # None) =>
        LET index == Val(mask_view).index
            b == Val(bounds)
            n == Cardinality(DOMAIN b) - 1
            p == IF index.type = "int" THEN index.v
                 ELSE CHOOSE q \in Positions : indices[q + 1] = index.v
        IN  IF index.type = "int" /\ (index.v < 0 \/ index.v >= n)
            THEN Val(ret).err = "IndexError" /\ Val(mask_view).value = None
            ELSE mask # None =>
                     /\ Val(ret).err = "ok"
                     /\ Val(mask_view).value # None
                     /\ IsScanSlice(Val(Val(mask_view).value), Val(mask), b, p)

\* get_mask(1) returned the slice of the second scan, which does not start at 0
C14_Witness ==
    /\ ret = Returned("get_mask", "ok")
    /\ Val(mask_view).index = IntIndex(1)
    /\ Val(Val(mask_view).value).lower > 0
    /\ Val(Val(mask_view).value).shape[1] > 0

\* C15: resize called without shape raises TypeError in _init_rebuild before
\* anything is dispatched: no task runs, no batch is returned, and spacing,
\* the nodule table, data, mask and bounds are as they were.
C15_ResizeMissingShape ==
    [][resize(FALSE, None, FALSE) =>
          /\ ret' = Returned("resize", "TypeError")
          /\ batch' = batch
          /\ pc' = "idle"
          /\ todo' = todo
          /\ all_results' = all_results
          /\ rbatch' = None]_vars

\* resize without shape was called on a loaded batch with a nodule table
C15_Witness ==
    /\ ret = Returned("resize", "TypeError")
    /\ data # None
    /\ nodules # None
    /\ Val(nodules) # <<>>
    /\ Snapshot = Val(entry)

\* the fractions x and y with x * m = y * n
SameProduct(x, m, y, n) == x[1] * m * y[2] = y[1] * n * x[2]

\* the geometry after a resize to target of the batch that was e: every
\* spacing times the target shape is the old spacing times the old shape, and
\* every nodule caches the spacing of its owning scan
Rescaled(e, target, spc, nods, ppos) ==
    /\ spc # None =>
           /\ e.spacing # None
           /\ \A p \in Positions : \A a \in Axes :
                  SameProduct(Val(spc)[p][a], target[a], Val(e.spacing)[p][a],
                              scan_shape(Val(e.data), Val(e.bounds), p)[a])
    /\ (spc # None /\ nods # None) =>
           \A i \in DOMAIN Val(nods) : Val(nods)[i].spacing = Val(spc)[Val(ppos)[i]]

Resized == IF rbatch # None THEN Val(rbatch) ELSE Snapshot

\* C17: after a resize that ended well, the mask of the resulting batch has
\* the shape of the new data and is what create_mask builds on an all-zero
\* mask from the rescaled nodule table; without a nodule table, or when no scan
\* owns a nodule, it is all zeros.
C17_MaskRebuilt ==
    ret = Returned("resize", "ok") =>
        LET r == Resized
            zeros == [shape |-> Val(r.data).shape, ones |-> {}]
        IN  /\ r.mask # None
            /\ Val(r.mask).shape = Val(r.data).shape
            /\ Val(r.mask) =
                   IF r.nodules = None \/ OwnersOf(r.nodules_pat_pos) = {} THEN zeros
                   ELSE MaskBuilt(zeros, Val(r.bounds), Val(r.nodules),
                                  Val(r.nodules_pat_pos))

\* a batch whose mask was all zeros, create_mask not having been called, was
\* resized in place to another shape and has the nodules in its mask
C17_Witness ==
    /\ ret = Returned("resize", "ok")
    /\ rbatch = None
    /\ Val(entry).mask # None
    /\ Val(Val(entry).mask).ones = {}
    /\ Val(mask).ones # {}
    /\ Val(mask).shape # Val(Val(entry).mask).shape

\* ------------------------------------------------------------ C18
\* C18: create_mask is idempotent: once a create_mask call has returned, a second
\* call on the same batch, with the same nodule table, leaves the mask as the
\* first call left it
C18_CreateMaskIdempotent ==
    (ret = Returned("create_mask", "ok") /\ mask # None /\ OwnersOf(nodules_pat_pos) # {})
        => MaskBuilt(Val(mask), Val(bounds), Val(nodules), Val(nodules_pat_pos))
               = Val(mask)

\* a create_mask call that has drawn nodules into the mask
C18_Witness ==
    /\ ret = Returned("create_mask", "ok")
    /\ mask # None
    /\ Val(entry).mask # None
    /\ Val(mask) # Val(Val(entry).mask)
    /\ Val(mask).ones # {}

NonOwners(pat_pos) == Positions \ OwnersOf(pat_pos)

\* C20: create_mask only sets voxels of the mask to 1, and only inside the scans
\* that own a nodule: a voxel that was 1 before the call is 1 after it, the mask
\* slice of every scan without nodules is as it was, every voxel the call has
\* set lies in the slice of a scan that owns a nodule, and the data, the
\* bounds, the origin, the spacing and the nodule table are as they were; a
\* call that raises leaves the mask as it was too
C20_CreateMaskFrame ==
    (ret # None /\ Val(ret).op = "create_mask")
        => LET e == Val(entry)
           IN  /\ data = e.data /\ bounds = e.bounds
               /\ origin = e.origin /\ spacing = e.spacing
               /\ nodules = e.nodules /\ nodules_pat_pos = e.nodules_pat_pos
               /\ (Val(ret).err # "ok" \/ mask = None) => mask = e.mask
               /\ (Val(ret).err = "ok" /\ mask # None) =>
                     /\ e.mask # None
                     /\ Val(mask).shape = Val(e.mask).shape
                     /\ Val(e.mask).ones \subseteq Val(mask).ones
                     /\ \A pos \in NonOwners(nodules_pat_pos) :
                            InSlice(Val(mask), Val(bounds), pos)
                                = InSlice(Val(e.mask), Val(bounds), pos)
                     /\ \A v \in Val(mask).ones \ Val(e.mask).ones :
                            \E pos \in OwnersOf(nodules_pat_pos) :
                                v \in InSlice(Val(mask), Val(bounds), pos)

\* a create_mask call that has set voxels of a mask in which a scan without
\* nodules holds voxels of value 1
C20_Witness ==
    /\ ret = Returned("create_mask", "ok")
    /\ mask # None
    /\ Val(mask) # Val(Val(entry).mask)
    /\ \E pos \in NonOwners(nodules_pat_pos) :
           InSlice(Val(Val(entry).mask), Val(bounds), pos) # {}

\* ------------------------------------------------------------ C21
\* the task of the scan at position p has returned its array
TaskDone(p) == all_results[p] # None /\ Val(all_results[p]).exc = ""

\* a load(fmt='raw') has returned: every task has left a result
LoadRawReturned ==
    ret = Returned("load", "ok") /\ \A p \in Positions : all_results[p] # None

\* C21: while the tasks of load(fmt='raw') run, in whatever order, the origin
\* row and the spacing row of position p are the ones the batch had when the
\* call started until the task of the scan at p writes them, and the scan's own
\* afterwards; when the call has returned, the data hold the scans in position
\* order, the bounds delimit them, and origin[p] and spacing[p] are those of
\* the scan at position p
C21_LoadRawRows ==
    /\ pc = "_load_raw" =>
          \A p \in Positions :
              /\ origin # None =>
                    Val(origin)[p] = IF p \in started \/ p \notin todo
                                     THEN RawOrigin[p + 1]
                                     ELSE Val(Val(entry).origin)[p]
              /\ spacing # None =>
                    Val(spacing)[p] = IF TaskDone(p) THEN RawSpacing[p + 1]
                                      ELSE Val(Val(entry).spacing)[p]
    /\ LoadRawReturned =>
          /\ Val(bounds)[0] = 0
          /\ \A p \in Positions :
                /\ Val(bounds)[p + 1] - Val(bounds)[p] = RawShape[p + 1][1]
                /\ \A z \in Range(RawShape[p + 1][1]) :
                       Val(data).slices[Val(bounds)[p] + z] = Slice("raw", p, z, 0)
                /\ Val(origin)[p] = RawOrigin[p + 1]
                /\ Val(spacing)[p] = RawSpacing[p + 1]
          /\ Val(data).shape[1] = Val(bounds)[NScans]

\* the task of the second scan has finished while the task of the first scan
\* is between its two writes, on a batch whose rows held other values
C21_Witness ==
    /\ pc = "_load_raw"
    /\ TaskDone(1)
    /\ 0 \in started
    /\ Val(Val(entry).spacing)[1] # RawSpacing[2]
    /\ Val(Val(entry).spacing)[0] # RawSpacing[1]

\* ------------------------------------------------------------ C22
\* C22: in every state between two calls, the nodule table and the array of
\* owning positions of the batch are both None or both present, and when
\* present they have the same number of entries
C22_TableWithPositions ==
    pc = "idle" =>
        /\ (nodules = None) <=> (nodules_pat_pos = None)
        /\ nodules # None => Len(Val(nodules)) = Len(Val(nodules_pat_pos))
====
